---- MODULE Spec2Model ----
(***************************************************************************)
(* Model of apps/user of django-ecommerce: Address.save and its partial    *)
(* unique constraint, CustomUserManager.create_user / create_superuser and *)
(* the User uniqueness constraints, and the verification-code expiration   *)
(* helper.  Every database statement is one atomic step (autocommit); the  *)
(* code opens no transaction.                                              *)
(***************************************************************************)
EXTENDS Integers, Sequences, FiniteSets, Bags, TLC

VARIABLES stored, inflight, calls, commits, users, last, now, outcome

vars == <<stored, inflight, calls, commits, users, last, now, outcome>>
scenarioVars == <<calls, commits>>
userVars == <<users, last>>
expVars == <<now, outcome>>

(***************************************************************************)
(* Bounds                                                                  *)
(***************************************************************************)
NumAddrs == 2
NumCallers == 2
MaxNow == 12
MaxMinutes == 8

AddrIds == 1..NumAddrs
Callers == 1..NumCallers
Owners == {"u1", "u2"}

(***************************************************************************)
(* Address rows                                                            *)
(***************************************************************************)
AddressType == {"B", "S"}

NoRow == [user |-> "-", address_type |-> "-", default |-> FALSE]

Rows == [user : Owners, address_type : AddressType, default : BOOLEAN]

Stores == [AddrIds -> Rows \cup {NoRow}]

\* The rows of (o, t) that are stored with default = true.
Defaults(st, o, t) ==
    {a \in AddrIds : st[a] # NoRow /\ st[a].user = o
                     /\ st[a].address_type = t /\ st[a].default}

UniqueDefaultUnconditional(st) ==
    \A a, b \in AddrIds :
        (a # b /\ st[a] # NoRow /\ st[b] # NoRow
         /\ st[a].user = st[b].user
         /\ st[a].address_type = st[b].address_type) => FALSE

UniqueDefaultDropped(st) == TRUE

\* UniqueConstraint(fields=[user, address_type], condition=Q(default=True))
UniqueDefault(st) ==
    \A a, b \in AddrIds :
        (a # b /\ st[a] # NoRow /\ st[b] # NoRow
         /\ st[a].default /\ st[b].default
         /\ st[a].user = st[b].user
         /\ st[a].address_type = st[b].address_type) => FALSE

\* Address.objects.filter(user=o, address_type=t, default=True).update(default=False)
DemoteRows(st, o, t) ==
    [a \in AddrIds |->
        IF a \in Defaults(st, o, t) THEN [st[a] EXCEPT !.default = FALSE]
                                    ELSE st[a]]

DemotionAlways(st, o, t, d) == DemoteRows(st, o, t)

\* if self.default: <the update statement>
Demotion(st, o, t, d) == IF d THEN DemoteRows(st, o, t) ELSE st

\* super().save(): one INSERT or UPDATE of the instance's row; the store
\* rejects it with IntegrityError when the constraint would be violated.
PersistRow(st, pk, row) ==
    LET new == [st EXCEPT ![pk] = row]
    IN  IF UniqueDefault(new) THEN [result |-> "ok", store |-> new]
                              ELSE [result |-> "IntegrityError", store |-> st]

Instance(o, t, d) == [user |-> o, address_type |-> t, default |-> d]

(***************************************************************************)
(* Address.save, any callers, any instances.  A save of a default instance *)
(* is two statements, and between them it is in the bag inflight; a save   *)
(* of a non-default instance is the one persist statement.  At most        *)
(* NumCallers callers are inside save at a time.                           *)
(***************************************************************************)
CallerFree == BagCardinality(inflight) < NumCallers

SaveNonDefault(pk, o, t) ==
    /\ CallerFree
    /\ stored' = PersistRow(Demotion(stored, o, t, FALSE), pk, Instance(o, t, FALSE)).store
    /\ UNCHANGED <<inflight, scenarioVars, userVars, expVars>>

SaveDefaultDemote(pk, o, t) ==
    /\ CallerFree
    /\ stored' = Demotion(stored, o, t, TRUE)
    /\ inflight' = inflight (+) SetToBag({[pk |-> pk, user |-> o, address_type |-> t]})
    /\ UNCHANGED <<scenarioVars, userVars, expVars>>

SaveDefaultPersist(i) ==
    /\ BagIn(i, inflight)
    /\ stored' = PersistRow(stored, i.pk, Instance(i.user, i.address_type, TRUE)).store
    /\ inflight' = inflight (-) SetToBag({i})
    /\ UNCHANGED <<scenarioVars, userVars, expVars>>

InFlight == [pk : AddrIds, user : Owners, address_type : AddressType]

ScenarioIdle == calls = <<>> /\ commits = <<>>
UserIdle ==
    /\ users = {}
    /\ last = [op |-> "-", email |-> <<>>, password |-> "None",
               is_staff |-> "absent", is_superuser |-> "absent", result |-> "-"]
ExpIdle ==
    /\ now = 0
    /\ outcome = [called |-> FALSE, minutes |-> 0, at |-> 0, raised |-> "none", value |-> 0]

AddrInit ==
    /\ stored = [a \in AddrIds |-> NoRow]
    /\ inflight = EmptyBag
    /\ ScenarioIdle
    /\ UserIdle
    /\ ExpIdle

AddrNext ==
    \/ \E pk \in AddrIds, o \in Owners, t \in AddressType : SaveNonDefault(pk, o, t)
    \/ \E pk \in AddrIds, o \in Owners, t \in AddressType : SaveDefaultDemote(pk, o, t)
    \/ \E i \in InFlight : SaveDefaultPersist(i)

SpecAddr == AddrInit /\ [][AddrNext]_vars

\* C1: in every reachable state each (owner, address_type) pair has at most
\* one stored address with default = true.
C1_AtMostOneDefault ==
    \A o \in Owners, t \in AddressType : Cardinality(Defaults(stored, o, t)) <= 1

\* Two default saves of different addresses of one pair are both between
\* their demotion and their persist.
C1_Witness ==
    \E i, j \in InFlight :
        /\ BagIn(i, inflight) /\ BagIn(j, inflight)
        /\ i.pk # j.pk /\ i.user = j.user /\ i.address_type = j.address_type

\* C3 (as claimed): the demotion statement of a default save never leaves a
\* state, visible to others before the persist, in which the default that
\* another address of the pair held has vanished with no replacement.
C3_NoVisibleDemotion ==
    [][\A pk \in AddrIds, o \in Owners, t \in AddressType :
          SaveDefaultDemote(pk, o, t) =>
              (Defaults(stored, o, t) \ {pk} # {} => Defaults(stored', o, t) # {})]_vars

\* C5: saving an instance whose default flag is false changes no other row
\* (of any owner and type) and stores exactly the saved instance.
C5_NonDefaultFrame ==
    [][\A pk \in AddrIds, o \in Owners, t \in AddressType :
          SaveNonDefault(pk, o, t) =>
              /\ \A b \in AddrIds \ {pk} : stored'[b] = stored[b]
              /\ stored'[pk] = Instance(o, t, FALSE)]_vars

\* A non-default row stored next to the default of its own pair.
C5_Witness ==
    \E a, b \in AddrIds :
        /\ a # b /\ stored[a] # NoRow /\ stored[b] # NoRow
        /\ ~stored[a].default /\ stored[b].default
        /\ stored[a].user = stored[b].user
        /\ stored[a].address_type = stored[b].address_type

(***************************************************************************)
(* NumCallers saves with default = true of one (owner, address_type),      *)
(* started together on any store; each runs its two statements in turn.    *)
(***************************************************************************)
ConcurrentDemote(c) ==
    /\ calls[c].pc = "demote"
    /\ stored' = Demotion(stored, calls[c].user, calls[c].address_type, TRUE)
    /\ calls' = [calls EXCEPT ![c].pc = "persist"]
    /\ UNCHANGED <<inflight, commits, userVars, expVars>>

ConcurrentPersist(c) ==
    /\ calls[c].pc = "persist"
    /\ LET r == PersistRow(stored, calls[c].pk,
                           Instance(calls[c].user, calls[c].address_type, TRUE))
       IN  /\ stored' = r.store
           /\ calls' = [calls EXCEPT ![c].pc = "done", ![c].result = r.result]
           /\ commits' = IF r.result = "ok" THEN Append(commits, c) ELSE commits
    /\ UNCHANGED <<inflight, userVars, expVars>>

SetDefaultInit ==
    /\ stored \in {st \in Stores : UniqueDefault(st)}
    /\ \E o \in Owners, t \in AddressType :
          calls \in [Callers -> {[pc |-> "demote", pk |-> pk, user |-> o,
                                 address_type |-> t, result |-> "-"] : pk \in AddrIds}]
    /\ commits = <<>>
    /\ inflight = EmptyBag
    /\ UserIdle
    /\ ExpIdle

SetDefaultNext == \E c \in Callers : ConcurrentDemote(c) \/ ConcurrentPersist(c)

SpecSetDefault == SetDefaultInit /\ [][SetDefaultNext]_vars

AllDone == \A c \in Callers : calls[c].pc = "done"

\* C2: once all the concurrently started default saves of a pair have
\* completed, exactly one stored address of the pair has default = true.
C2_ExactlyOneDefault ==
    AllDone => \A c \in Callers :
                  Cardinality(Defaults(stored, calls[c].user, calls[c].address_type)) = 1

\* All saves completed, of different addresses, one rejected by the store.
C2_Witness ==
    AllDone /\ \E c, d \in Callers :
                  calls[c].pk # calls[d].pk /\ calls[d].result = "IntegrityError"

\* C4 (as claimed): two concurrent default saves of different addresses of
\* one pair both complete, and the default is the address committed last.
C4_BothCompleteLastWins ==
    \A c, d \in Callers :
        (Callers = {c, d} /\ calls[c].pk # calls[d].pk /\ AllDone) =>
            /\ calls[c].result = "ok" /\ calls[d].result = "ok"
            /\ Len(commits) = 2
            /\ Defaults(stored, calls[c].user, calls[c].address_type)
                   = {calls[commits[Len(commits)]].pk}

(***************************************************************************)
(* CustomUserManager.  An email is a sequence of characters.               *)
(***************************************************************************)
NONE == "None"

Emails == { <<>>, <<"a", "@", "x">>, <<"A", "@", "X">>, <<"B">> }
Passwords == {NONE, "", "pw"}
FlagArgs == {"absent", "True", "False"}

\* str.lower() on one character of the alphabet used here
LowerChar(ch) ==
    CASE ch = "A" -> "a"
      [] ch = "B" -> "b"
      [] ch = "X" -> "x"
      [] OTHER -> ch

LowerStr(s) == [i \in 1..Len(s) |-> LowerChar(s[i])]

\* BaseUserManager.normalize_email: rsplit("@", 1) and lowercase the domain
\* part; an address without "@" is returned as it is.
NormalizeEmail(email) ==
    LET ats == {i \in 1..Len(email) : email[i] = "@"}
    IN  IF ats = {} THEN email
        ELSE LET k == CHOOSE i \in ats : \A j \in ats : j <= i
             IN  SubSeq(email, 1, k) \o LowerStr(SubSeq(email, k + 1, Len(email)))

NormalizeOnly(email) == NormalizeEmail(email)

\* self.normalize_email(email).lower()
StoredEmail(email) == LowerStr(NormalizeEmail(email))

\* if password: set_password(password) else: set_unusable_password()
Truthy(password) == password # NONE /\ password # ""

\* extra_fields.setdefault(key, value)
SetDefault(given, value) == IF given = "absent" THEN value ELSE given

\* email unique=True and UniqueConstraint(Lower("email")): no stored user
\* has the same email, compared in lower case.
EmailTaken(us, u) == \E v \in us : LowerStr(v.email) = LowerStr(u.email)

\* user.save(): one INSERT, rejected by the store on a uniqueness conflict.
InsertUser(us, u) ==
    IF EmailTaken(us, u) THEN [result |-> "DUPLICATE", users |-> us]
                         ELSE [result |-> "ok", users |-> us \cup {u}]

_create_user(us, email, password, is_staff, is_superuser) ==
    IF email = <<>>
    THEN [result |-> "INVALID_EMAIL", users |-> us]
    ELSE InsertUser(us, [email |-> StoredEmail(email),
                         usable_password |-> Truthy(password),
                         is_staff |-> is_staff = "True",
                         is_superuser |-> is_superuser = "True"])

create_user(us, email, password, is_staff, is_superuser) ==
    _create_user(us, email, password,
                 SetDefault(is_staff, "False"), SetDefault(is_superuser, "False"))

create_superuser_password_unchecked(us, email, password, is_staff, is_superuser) ==
    IF SetDefault(is_staff, "True") # "True"
    THEN [result |-> "INVALID_STAFF_FLAG", users |-> us]
    ELSE IF SetDefault(is_superuser, "True") # "True"
    THEN [result |-> "INVALID_SUPERUSER_FLAG", users |-> us]
    ELSE _create_user(us, email, password,
                      SetDefault(is_staff, "True"), SetDefault(is_superuser, "True"))

create_superuser(us, email, password, is_staff, is_superuser) ==
    IF SetDefault(is_staff, "True") # "True"
    THEN [result |-> "INVALID_STAFF_FLAG", users |-> us]
    ELSE IF SetDefault(is_superuser, "True") # "True"
    THEN [result |-> "INVALID_SUPERUSER_FLAG", users |-> us]
    ELSE IF ~Truthy(password)
    THEN [result |-> "PASSWORD_REQUIRED", users |-> us]
    ELSE _create_user(us, email, password,
                      SetDefault(is_staff, "True"), SetDefault(is_superuser, "True"))

Call(op, email, password, is_staff, is_superuser, result) ==
    [op |-> op, email |-> email, password |-> password,
     is_staff |-> is_staff, is_superuser |-> is_superuser, result |-> result]

CreateUser(email, password, is_staff, is_superuser) ==
    LET r == create_user(users, email, password, is_staff, is_superuser)
    IN  /\ users' = r.users
        /\ last' = Call("create_user", email, password, is_staff, is_superuser, r.result)
        /\ UNCHANGED <<stored, inflight, scenarioVars, expVars>>

CreateSuperuser(email, password, is_staff, is_superuser) ==
    LET r == create_superuser(users, email, password, is_staff, is_superuser)
    IN  /\ users' = r.users
        /\ last' = Call("create_superuser", email, password, is_staff, is_superuser, r.result)
        /\ UNCHANGED <<stored, inflight, scenarioVars, expVars>>

AddrIdle == stored = [a \in AddrIds |-> NoRow] /\ inflight = EmptyBag

UserInit ==
    /\ UserIdle
    /\ AddrIdle
    /\ ScenarioIdle
    /\ ExpIdle

UserNext ==
    \E email \in Emails, password \in Passwords, is_staff \in FlagArgs, is_superuser \in FlagArgs :
        \/ CreateUser(email, password, is_staff, is_superuser)
        \/ CreateSuperuser(email, password, is_staff, is_superuser)

SpecUser == UserInit /\ [][UserNext]_vars

ArgumentErrors == {"INVALID_EMAIL", "INVALID_STAFF_FLAG", "INVALID_SUPERUSER_FLAG",
                   "PASSWORD_REQUIRED"}

FlagContradicted == last'.is_staff = "False" \/ last'.is_superuser = "False"

\* C6 (as claimed): every create_superuser call (the step whose record in
\* last' names it) with no password fails with PASSWORD_REQUIRED, one with
\* is_staff or is_superuser set to other than True fails with the flag error,
\* both storing no user; a successful one stores a staff superuser.
C6_SuperuserChecks ==
    [][last'.op = "create_superuser" =>
          /\ ~Truthy(last'.password) =>
                 last'.result = "PASSWORD_REQUIRED" /\ users' = users
          /\ FlagContradicted =>
                 /\ last'.result \in {"INVALID_STAFF_FLAG", "INVALID_SUPERUSER_FLAG"}
                 /\ users' = users
          /\ last'.result = "ok" =>
                 \E u \in users' \ users : u.is_staff /\ u.is_superuser]_vars

\* C6 (amended): as claimed, except that a call with no password fails with
\* PASSWORD_REQUIRED only when its flags are not contradicted; when they are,
\* it fails with the flag error, which the code checks first.
C6_SuperuserChecksAmended ==
    [][last'.op = "create_superuser" =>
          /\ ~Truthy(last'.password) =>
                 /\ last'.result # "ok" /\ users' = users
                 /\ ~FlagContradicted => last'.result = "PASSWORD_REQUIRED"
          /\ FlagContradicted =>
                 /\ last'.result = IF last'.is_staff = "False"
                                   THEN "INVALID_STAFF_FLAG" ELSE "INVALID_SUPERUSER_FLAG"
                 /\ users' = users
          /\ last'.result = "ok" =>
                 \E u \in users' \ users : u.is_staff /\ u.is_superuser]_vars

\* A create_superuser call without password was rejected while users exist.
C6_Witness ==
    /\ last.op = "create_superuser" /\ last.password = NONE
    /\ last.result = "PASSWORD_REQUIRED"
    /\ \E u \in users : u.is_superuser /\ u.is_staff

\* C7 (as claimed): no stored user is a superuser with an unusable credential.
C7_NoUnusableSuperuser ==
    \A u \in users : u.is_superuser => u.usable_password

EXPIRATION_MINUTES == 7

Minutes == (0..MaxMinutes) \cup {EXPIRATION_MINUTES}

\* The public attributes of the class that helpers.py imports under the name
\* timezone (datetime.timezone of the standard library).
TimezoneAttributes == {"dst", "fromutc", "max", "min", "tzname", "utc", "utcoffset"}

\* return timezone.now() + timedelta(minutes=minutes)
calcule_verification_code_expiration(minutes, clock) ==
    IF "now" \in TimezoneAttributes
    THEN [raised |-> "none", value |-> clock + minutes]
    ELSE [raised |-> "AttributeError", value |-> -1]

Tick ==
    /\ now < MaxNow
    /\ now' = now + 1
    /\ UNCHANGED <<outcome, stored, inflight, scenarioVars, userVars>>

CallExpiration(minutes) ==
    LET r == calcule_verification_code_expiration(minutes, now)
    IN  /\ outcome' = [called |-> TRUE, minutes |-> minutes, at |-> now,
                       raised |-> r.raised, value |-> r.value]
        /\ UNCHANGED <<now, stored, inflight, scenarioVars, userVars>>

ExpInit ==
    /\ ExpIdle
    /\ AddrIdle
    /\ ScenarioIdle
    /\ UserIdle

ExpNext ==
    \/ Tick
    \/ \E minutes \in Minutes : CallExpiration(minutes)

SpecExp == ExpInit /\ [][ExpNext]_vars

\* C9 (as claimed): every call with minutes >= 0 returns normally, and its
\* result is the clock value at the call plus minutes (plus 7 with the
\* configured default).
C9_ExpirationReturned ==
    outcome.called =>
        /\ outcome.raised = "none"
        /\ outcome.value = outcome.at + outcome.minutes
        /\ outcome.minutes = EXPIRATION_MINUTES => outcome.value = outcome.at + 7

====
